---- MODULE Spec2Model ----
(***************************************************************************)
(* A model of socketmap.py: the netstring framing codec                    *)
(* (netstring_reader, Handler.write_netstring), the request dispatcher     *)
(* (Handler.run_query, Handler._query_db) and the per-connection loop      *)
(* (Handler.handle).                                                       *)
(*                                                                         *)
(* Text is a sequence of one-character strings, so "3:a k," is             *)
(* <<"3", ":", "a", " ", "k", ",">>.  The stream is read as text, as the   *)
(* string literals of the source ('' for end of stream, ':' and ',') read  *)
(* it.  read(1) at end of stream is the empty string "".                   *)
(***************************************************************************)
EXTENDS Integers, Sequences, FiniteSets, TLC

VARIABLES sent,     \* the request payloads the client framed, in order
          input,    \* every character the client sends on the connection
          rfile,    \* self.rfile: the characters not read yet
          wfile,    \* self.wfile: one entry per write() call
          response, \* the argument of the last write_netstring call
          n,        \* netstring_reader's length buffer n
          frames,   \* the payloads netstring_reader has yielded, in order
          result,   \* what run_query returned or raised for the current request
          executed, \* the statements run on server.db_conn: [frame, query, param]
          pc,       \* where the connection is in handle / netstring_reader
          outcome,  \* how handle ended: "" while running
          cp,       \* parse_config's cp: the sections of the configuration file
          cfg,      \* main's cfg: what parse_config returned or raised
          client,   \* each client's end of its connection: new, open or closed
          asked,    \* the requests each client has sent
          unread,   \* the requests sent on each connection and not read yet
          replies,  \* the responses written on each connection
          backlog,  \* the connections waiting for the server's accept()
          handler   \* where the Handler of each connection is, if it has one

connVars == <<sent, input, rfile, wfile, response, n, frames, result, executed, pc, outcome>>
configVars == <<cp, cfg>>
serverVars == <<client, asked, unread, replies, backlog, handler>>

vars == <<sent, input, rfile, wfile, response, n, frames, result, executed, pc, outcome,
          cp, cfg, client, asked, unread, replies, backlog, handler>>

-----------------------------------------------------------------------------
(* Bounds of the model. *)

\* Frames of a stream that is served to its end.
MaxFrames == 3
\* Complete frames that come before a malformed or truncated tail.
MaxBeforeTail == 1
\* Every stream over Alphabet of at most this length is also an input.
ShortLen == 3
\* Longest run of one character in the payloads of the codec round trip.
MaxRun == 11
\* Declared lengths are counted up to this value: a longer declared length
\* exceeds every stream of the model, and read(n) returns what is left.
Huge == 1000000

-----------------------------------------------------------------------------
(* Text helpers. *)

Digits == <<"0", "1", "2", "3", "4", "5", "6", "7", "8", "9">>

IsDigit(c) == \E d \in 1..10 : Digits[d] = c

DigitVal(c) == (CHOOSE d \in 1..10 : Digits[d] = c) - 1

RECURSIVE Flatten(_)
Flatten(ss) == IF ss = <<>> THEN <<>> ELSE Head(ss) \o Flatten(Tail(ss))

SeqsUpTo(S, k) == UNION {[1..m -> S] : m \in 0..k}

Repeat(c, k) == [i \in 1..k |-> c]

\* Index of the first occurrence of sep in s, 0 when there is none.
Find(s, sep) ==
    IF \E i \in 1..Len(s) : s[i] = sep
    THEN CHOOSE i \in 1..Len(s) : s[i] = sep /\ \A j \in 1..(i - 1) : s[j] # sep
    ELSE 0

\* As Split1, cut at the last occurrence of sep (rsplit in place of split).
Split1Last(s, sep) ==
    LET i == IF \E j \in 1..Len(s) : s[j] = sep
             THEN CHOOSE j \in 1..Len(s) :
                      s[j] = sep /\ \A m \in (j + 1)..Len(s) : s[m] # sep
             ELSE 0
    IN  IF i = 0 THEN <<s>>
        ELSE <<SubSeq(s, 1, i - 1), SubSeq(s, i + 1, Len(s))>>

\* s.split(sep, 1): one element when sep does not occur, else two.
Split1(s, sep) ==
    LET i == Find(s, sep)
    IN  IF i = 0 THEN <<s>>
        ELSE <<SubSeq(s, 1, i - 1), SubSeq(s, i + 1, Len(s))>>

\* str(k) for k >= 0, as '{}'.format(k) writes it.
RECURSIVE NatToStr(_)
NatToStr(k) ==
    IF k < 10 THEN <<Digits[k + 1]>>
    ELSE NatToStr(k \div 10) \o <<Digits[(k % 10) + 1]>>

\* s with the blanks at both ends removed, as int() strips its argument.
RECURSIVE LStrip(_)
LStrip(s) == IF s # <<>> /\ Head(s) = " " THEN LStrip(Tail(s)) ELSE s

RECURSIVE RStrip(_)
RStrip(s) ==
    IF s # <<>> /\ s[Len(s)] = " " THEN RStrip(SubSeq(s, 1, Len(s) - 1)) ELSE s

Strip(s) == RStrip(LStrip(s))

HasSign(s) == s # <<>> /\ Head(s) \in {"+", "-"}

Unsigned(s) == IF HasSign(s) THEN Tail(s) ELSE s

\* Whether int(s, 10) returns: blanks around, an optional sign, then digits.
IsIntLiteral(s) ==
    LET u == Unsigned(Strip(s))
    IN  u # <<>> /\ \A i \in 1..Len(u) : IsDigit(u[i])

RECURSIVE DecValue(_, _)
DecValue(u, acc) ==
    IF u = <<>> THEN acc
    ELSE LET v == acc * 10 + DigitVal(Head(u))
         IN  DecValue(Tail(u), IF v > Huge THEN Huge ELSE v)

\* int(s, 10) for an s that IsIntLiteral.
IntValue(s) ==
    LET t == Strip(s)
        v == DecValue(Unsigned(t), 0)
    IN  IF HasSign(t) /\ Head(t) = "-" THEN 0 - v ELSE v

-----------------------------------------------------------------------------
(* netstring_reader: the pieces of one frame. *)

\* The longest length buffer after which another character is still taken.
MaxLenBuffer == 10

\* fp.read(1): "" at end of stream.
Read1(fp) == IF fp = <<>> THEN "" ELSE Head(fp)

\* What is left of fp after read(k); a negative k reads to the end.
Rest(fp, k) ==
    IF k < 0 \/ k >= Len(fp) THEN <<>> ELSE SubSeq(fp, k + 1, Len(fp))

\* fp.read(k).
ReadN(fp, k) ==
    IF k < 0 \/ k >= Len(fp) THEN fp ELSE SubSeq(fp, 1, k)

\* line 76
TooLong(buf) == Len(buf) > MaxLenBuffer

\* As LeadingZero, the check for a leading zero left out.
LeadingZeroAllowed(c, buf) == FALSE

\* line 78
LeadingZero(c, buf) == c = "0" /\ buf = <<>>

\* As Truncated, a short payload not told from a whole one.
TruncatedIgnored(payload, k) == FALSE

\* line 87
Truncated(payload, k) == Len(payload) < k

\* line 89
BadTerminator(c) == c # ","

-----------------------------------------------------------------------------
(* Handler.write_netstring *)

\* As write_netstring, the terminating ',' left out.
write_netstring_no_comma(resp) == NatToStr(Len(resp)) \o <<":">> \o resp

write_netstring(resp) == NatToStr(Len(resp)) \o <<":">> \o resp \o <<",">>

-----------------------------------------------------------------------------
(* netstring_reader, lines 67-91.  One step of the inner loop (lines 70-84) *)
(* and the rest of the outer loop's body (lines 85-91), each as the state   *)
(* of the generator after it.                                               *)

Running(fp, buf, at) == [rfile |-> fp, n |-> buf, pc |-> at, outcome |-> ""]

\* The generator returns (end of the frame sequence) or raises.
Ended(fp, buf, how) == [rfile |-> fp, n |-> buf, pc |-> "Closed", outcome |-> how]

reader_length(fp, buf) ==
    LET c == Read1(fp)
        after == Rest(fp, 1)
    IN  IF c = "" THEN Ended(fp, buf, "eof")
        ELSE IF c = ":" THEN Running(after, buf, "ReadBody")
        ELSE IF TooLong(buf) THEN Ended(after, buf, "MalformedNetstringError")
        ELSE IF LeadingZero(c, buf)
             THEN IF Read1(after) # ":"
                  THEN Ended(Rest(after, 1), buf, "MalformedNetstringError")
                  ELSE Running(Rest(after, 1), <<c>>, "ReadBody")
        ELSE Running(after, Append(buf, c), "ReadLen")

\* As reader_payload, the reader going on to the next frame without waiting
\* for its caller (every frame of the stream collected first).
reader_payload_eager(fp, buf) ==
    IF ~IsIntLiteral(buf)
    THEN [next |-> Ended(fp, buf, "ValueError(int)"), yield |-> <<>>]
    ELSE LET k == IntValue(buf)
             payload == ReadN(fp, k)
             after == Rest(fp, k)
         IN  IF Truncated(payload, k)
             THEN [next |-> Ended(after, buf, "eof"), yield |-> <<>>]
             ELSE IF BadTerminator(Read1(after))
             THEN [next |-> Ended(Rest(after, 1), buf, "MalformedNetstringError"),
                   yield |-> <<>>]
             ELSE [next |-> Running(Rest(after, 1), <<>>, "ReadLen"),
                   yield |-> <<payload>>]

\* As reader_payload, the payload yielded before its terminator is checked.
reader_payload_yield_first(fp, buf) ==
    IF ~IsIntLiteral(buf)
    THEN [next |-> Ended(fp, buf, "ValueError(int)"), yield |-> <<>>]
    ELSE LET k == IntValue(buf)
             payload == ReadN(fp, k)
             after == Rest(fp, k)
         IN  IF Truncated(payload, k)
             THEN [next |-> Ended(after, buf, "eof"), yield |-> <<>>]
             ELSE IF BadTerminator(Read1(after))
             THEN [next |-> Ended(Rest(after, 1), buf, "MalformedNetstringError"),
                   yield |-> <<payload>>]
             ELSE [next |-> Running(Rest(after, 1), buf, "Dispatching"),
                   yield |-> <<payload>>]

\* Lines 85-91; yield is the payload handed to the caller, if any.
reader_payload(fp, buf) ==
    IF ~IsIntLiteral(buf)
    THEN [next |-> Ended(fp, buf, "ValueError(int)"), yield |-> <<>>]
    ELSE LET k == IntValue(buf)
             payload == ReadN(fp, k)
             after == Rest(fp, k)
         IN  IF Truncated(payload, k)
             THEN [next |-> Ended(after, buf, "eof"), yield |-> <<>>]
             ELSE IF BadTerminator(Read1(after))
             THEN [next |-> Ended(Rest(after, 1), buf, "MalformedNetstringError"),
                   yield |-> <<>>]
             ELSE [next |-> Running(Rest(after, 1), buf, "Dispatching"),
                   yield |-> <<payload>>]

-----------------------------------------------------------------------------
(* The table registry and the datastore the connection is served from.     *)

PERM == <<"P", "E", "R", "M", " ">>
NOTFOUND == <<"N", "O", "T", "F", "O", "U", "N", "D", " ">>
OK == <<"O", "K", " ">>

\* str(IndexError) of [..][1] on a one-element list.
IndexErrorText ==
    <<"l", "i", "s", "t", " ", "i", "n", "d", "e", "x", " ",
      "o", "u", "t", " ", "o", "f", " ", "r", "a", "n", "g", "e">>

\* str() of the error the datastore raises for the statement of table b.
DbErrorText ==
    <<"i", "n", "c", "o", "m", "p", "l", "e", "t", "e", " ",
      "i", "n", "p", "u", "t">>

Raise(text) == [kind |-> "raise", text |-> text]
Return(value) == [kind |-> "return", text |-> value]

passthrough(arg) == Return(arg)

\* The index of the last occurrence of sep in s, 0 when there is none.
FindLast(s, sep) ==
    IF \E i \in 1..Len(s) : s[i] = sep
    THEN CHOOSE i \in 1..Len(s) : s[i] = sep /\ \A j \in (i + 1)..Len(s) : s[j] # sep
    ELSE 0

\* As local_part, cut at the last '@' (rsplit in place of split).
local_part_last(arg) ==
    LET i == FindLast(arg, "@")
    IN  Return(IF i = 0 THEN arg ELSE SubSeq(arg, 1, i - 1))

local_part(arg) == Return(Split1(arg, "@")[1])

\* As domain_part, the last piece taken ([-1]): the argument when it has no '@'.
domain_part_or_all(arg) ==
    LET parts == Split1(arg, "@")
    IN  Return(parts[Len(parts)])

domain_part(arg) ==
    LET parts == Split1(arg, "@")
    IN  IF Len(parts) < 2 THEN Raise(IndexErrorText) ELSE Return(parts[2])

\* table['transform'](arg)
Transform(name, arg) ==
    CASE name = "passthrough" -> passthrough(arg)
      [] name = "local_part" -> local_part(arg)
      [] name = "domain_part" -> domain_part(arg)

\* server.tables
tables ==
    (<<"a">> :> [query |-> "SELECT v FROM a WHERE k = ?", transform |-> "passthrough"])
    @@ (<<"l">> :> [query |-> "SELECT v FROM l WHERE k = ?", transform |-> "local_part"])
    @@ (<<"d">> :> [query |-> "SELECT v FROM d WHERE k = ?", transform |-> "domain_part"])
    @@ (<<"b">> :> [query |-> "SELECT", transform |-> "passthrough"])

-----------------------------------------------------------------------------
(* parse_config: the registry built from the sections of the configuration  *)
(* file.  A section is [name, options]; the options of a section are a      *)
(* function from option names to their values.                              *)

Lower ==
    {"a", "b", "c", "d", "e", "f", "g", "h", "i", "j", "k", "l", "m",
     "n", "o", "p", "q", "r", "s", "t", "u", "v", "w", "x", "y", "z"}
Upper ==
    {"A", "B", "C", "D", "E", "F", "G", "H", "I", "J", "K", "L", "M",
     "N", "O", "P", "Q", "R", "S", "T", "U", "V", "W", "X", "Y", "Z"}

\* [a-z_] and [a-z0-9_] under re.I
IsIdentStart(c) == c \in Lower \cup Upper \cup {"_"}
IsIdentChar(c) == IsIdentStart(c) \/ IsDigit(c)

\* [a-z_][a-z0-9_]*(?:\.[a-z_][a-z0-9_]*)*
IsPath(s) ==
    /\ s # <<>>
    /\ \A i \in 1..Len(s) :
          IF s[i] = "."
          THEN i > 1 /\ i < Len(s) /\ s[i - 1] # "."
          ELSE /\ IsIdentChar(s[i])
               /\ (i = 1 \/ s[i - 1] = ".") => IsIdentStart(s[i])

\* match, lines 45-49: the module and the object of a function reference.
match(name) ==
    LET i == Find(name, ":")
        module == SubSeq(name, 1, i - 1)
        object == SubSeq(name, i + 1, Len(name))
    IN  IF i # 0 /\ IsPath(module) /\ IsPath(object)
        THEN [kind |-> "return", error |-> "", module |-> module, object |-> object]
        ELSE [kind |-> "raise", error |-> "ValueError", module |-> <<>>, object |-> <<>>]

\* What can be imported where the daemon runs: module m with its function f
\* and, in its submodule p, the function g.
Modules == { <<"m">>, <<"m", ".", "p">> }
Objects ==
    (<< <<"m">>, <<"f">> >> :> "m.f")
    @@ (<< <<"m">>, <<"p", ".", "g">> >> :> "m.p.g")
    @@ (<< <<"m", ".", "p">>, <<"g">> >> :> "m.p.g")

\* resolve, lines 52-60: __import__ and then getattr along the object path.
resolve(module_name, obj_name) ==
    IF module_name \notin Modules
    THEN [kind |-> "raise", error |-> "ImportError", value |-> ""]
    ELSE IF <<module_name, obj_name>> \notin DOMAIN Objects
    THEN [kind |-> "raise", error |-> "AttributeError", value |-> ""]
    ELSE [kind |-> "return", error |-> "", value |-> Objects[<<module_name, obj_name>>]]

All == <<"a", "l", "l">>
Local == <<"l", "o", "c", "a", "l">>
DomainName == <<"d", "o", "m", "a", "i", "n">>

\* Lines 169-176: the transform a transform_name stands for.
transform_of(transform_name) ==
    IF transform_name = All
    THEN [kind |-> "return", error |-> "", value |-> "passthrough"]
    ELSE IF transform_name = Local
    THEN [kind |-> "return", error |-> "", value |-> "local_part"]
    ELSE IF transform_name = DomainName
    THEN [kind |-> "return", error |-> "", value |-> "domain_part"]
    ELSE LET ref == match(transform_name)
         IN  IF ref.kind = "raise"
             THEN [kind |-> "raise", error |-> ref.error, value |-> ""]
             ELSE resolve(ref.module, ref.object)

\* Lines 165-168: cp.get(section, 'transform'), 'all' when there is none.
transform_name_of(section) ==
    IF "transform" \in DOMAIN section.options
    THEN section.options["transform"] ELSE All

\* As table_entry, the transform resolved before the query is looked for.
table_entry_eager(section) ==
    LET transform == transform_of(transform_name_of(section))
    IN  IF transform.kind = "raise"
        THEN [kind |-> "raise", error |-> transform.error, transform |-> "", query |-> ""]
        ELSE IF "query" \notin DOMAIN section.options
        THEN [kind |-> "skip", error |-> "", transform |-> "", query |-> ""]
        ELSE [kind |-> "entry", error |-> "", transform |-> transform.value,
              query |-> section.options["query"]]

\* Lines 161-181: what one table section adds to the registry.
table_entry(section) ==
    IF "query" \notin DOMAIN section.options
    THEN [kind |-> "skip", error |-> "", transform |-> "", query |-> ""]
    ELSE LET transform == transform_of(transform_name_of(section))
         IN  IF transform.kind = "raise"
             THEN [kind |-> "raise", error |-> transform.error,
                   transform |-> "", query |-> ""]
             ELSE [kind |-> "entry", error |-> "", transform |-> transform.value,
                   query |-> section.options["query"]]

TablePrefix == <<"t", "a", "b", "l", "e", ":">>

\* section.startswith('table:')
IsTableSection(section) ==
    /\ Len(section.name) >= Len(TablePrefix)
    /\ SubSeq(section.name, 1, Len(TablePrefix)) = TablePrefix

\* _, table_name = section.split(':', 1)
table_name_of(section) == Split1(section.name, ":")[2]

NoTables == [t \in {} |-> ""]

\* Lines 158-181: the loop over cp.sections(), registry so far in acc.
RECURSIVE sections_loop(_, _)
sections_loop(sections, acc) ==
    IF sections = <<>>
    THEN [kind |-> "return", error |-> "", tables |-> acc]
    ELSE IF ~IsTableSection(Head(sections))
    THEN sections_loop(Tail(sections), acc)
    ELSE LET entry == table_entry(Head(sections))
         IN  CASE entry.kind = "skip" -> sections_loop(Tail(sections), acc)
               [] entry.kind = "raise" ->
                     [kind |-> "raise", error |-> entry.error, tables |-> NoTables]
               [] entry.kind = "entry" ->
                     sections_loop(Tail(sections),
                         (table_name_of(Head(sections)) :>
                             [query |-> entry.query, transform |-> entry.transform])
                         @@ acc)

Database == <<"d", "a", "t", "a", "b", "a", "s", "e">>

\* parse_config, lines 140-183, of the sections of a configuration file;
\* lines 153-156 raise when there is no path of the database.
parse_config(sections) ==
    IF ~\E i \in 1..Len(sections) : sections[i].name = Database
    THEN [kind |-> "raise", error |-> "NoSectionError", tables |-> NoTables]
    ELSE IF ~\E i \in 1..Len(sections) :
                /\ sections[i].name = Database
                /\ "path" \in DOMAIN sections[i].options
    THEN [kind |-> "raise", error |-> "NoOptionError", tables |-> NoTables]
    ELSE sections_loop(sections, NoTables)

\* The configuration file the daemon of the connection model is started with.
ServedConfig ==
    << [name |-> Database, options |-> ("path" :> "/var/db/socketmap.db")],
       [name |-> TablePrefix \o <<"a">>,
        options |-> ("query" :> "SELECT v FROM a WHERE k = ?")],
       [name |-> TablePrefix \o <<"l">>,
        options |-> ("query" :> "SELECT v FROM l WHERE k = ?")
                    @@ ("transform" :> Local)],
       [name |-> TablePrefix \o <<"d">>,
        options |-> ("query" :> "SELECT v FROM d WHERE k = ?")
                    @@ ("transform" :> DomainName)],
       [name |-> TablePrefix \o <<"b">>,
        options |-> ("query" :> "SELECT") @@ ("transform" :> All)] >>

\* fetchone(): None, a row whose first column is text, or a row whose first
\* column is an integer.
None == [kind |-> "none", text |-> <<>>]
TextRow(v) == [kind |-> "text", text |-> v]
IntegerRow == [kind |-> "integer", text |-> <<>>]

\* server.db_conn: cur.execute(query, [param]) and cur.fetchone().
Db(query, param) ==
    CASE query = "SELECT" -> Raise(DbErrorText)
      [] query = "SELECT v FROM a WHERE k = ?" ->
            CASE param = <<"k">> -> TextRow(<<"v">>)
              [] param = <<"k", " ", "k">> -> TextRow(<<"s", " ", "t">>)
              [] param = <<"n">> -> IntegerRow
              [] OTHER -> None
      [] query = "SELECT v FROM l WHERE k = ?" ->
            IF param = <<"u">> THEN TextRow(<<"w">>) ELSE None
      [] query = "SELECT v FROM d WHERE k = ?" ->
            IF param = <<"k">> THEN TextRow(<<"x">>) ELSE None

-----------------------------------------------------------------------------
(* Handler._query_db, Handler.run_query: the result (a fetchone() value or  *)
(* the exception raised) and the statements executed on the way.            *)

\* As _query_db, a statement that raised executed a second time.
query_db_retry(table, arg) ==
    LET value == Transform(table.transform, arg)
        stmt == [query |-> table.query, param |-> value.text]
    IN  IF value.kind = "raise"
        THEN [result |-> value, executed |-> <<>>]
        ELSE [result |-> Db(table.query, value.text),
              executed |-> IF Db(table.query, value.text).kind = "raise"
                           THEN <<stmt, stmt>> ELSE <<stmt>>]

query_db(table, arg) ==
    LET value == Transform(table.transform, arg)
    IN  IF value.kind = "raise"
        THEN [result |-> value, executed |-> <<>>]
        ELSE [result |-> Db(table.query, value.text),
              executed |-> <<[query |-> table.query, param |-> value.text]>>]

\* As run_query, an unknown table taken for a lookup that finds nothing.
run_query_unknown_is_miss(table_name, arg) ==
    IF table_name \notin DOMAIN tables
    THEN [result |-> None, executed |-> <<>>]
    ELSE query_db(tables[table_name], arg)

run_query(table_name, arg) ==
    IF table_name \notin DOMAIN tables
    THEN [result |-> Raise(table_name), executed |-> <<>>]
    ELSE query_db(tables[table_name], arg)

\* The request handle is serving: the last payload the reader yielded.
request == frames[Len(frames)]

\* Line 116: request.split(' ', 1) unpacks into exactly two names.
Unpacks(parts) == Len(parts) = 2

\* Lines 119-125: the payload written for a result; none for a row whose
\* first column is not text ('OK ' + result[0] raises TypeError).
ResponseFor(res) ==
    CASE res.kind = "raise" -> <<PERM \o res.text>>
      [] res.kind = "none" -> <<NOTFOUND>>
      [] res.kind = "text" -> <<OK \o res.text>>
      [] res.kind = "integer" -> <<>>

\* As AfterResponse, the loop left once an error has been reported.
AfterResponseStopOnError(res) == IF res.kind = "raise" THEN "Closed" ELSE "ReadLen"

\* Line 115: after a response the for loop asks the reader for the next frame.
AfterResponse(res) == "ReadLen"

-----------------------------------------------------------------------------
(* The streams a client sends. *)

\* Request payloads: found, not found, unknown table, no space, a row whose
\* first column is an integer, a failing statement, a failing transform,
\* the three transforms, an empty argument, an argument with a space.
Requests ==
    { <<"a", " ", "k">>, <<"a", " ", "m">>, <<"z", " ", "k">>, <<"a", "k">>,
      <<"a", " ", "n">>, <<"b", " ", "k">>, <<"d", " ", "k">>,
      <<"d", " ", "u", "@", "k">>, <<"l", " ", "u", "@", "k">>,
      <<"a", " ">>, <<"a", " ", "k", " ", "k">> }

AK == <<"a", " ", "k", ",">>

\* What a stream may end with after its complete frames: malformed,
\* truncated and unusual length prefixes.
Tails ==
    { <<"0", "0", ":", ",">>,
      <<"0", "0", "7", ":", "a", "b", "c", "1", "2", "3", "4", ",">>,
      <<"0", ":", ",">>, <<"0", ":">>, <<"0">>, <<"0", ":", "x">>,
      <<"3", ":">> \o AK, <<"3", ":", "a", " ", "k">>, <<"3", ":", "a">>,
      <<"3", ":">>, <<"3">>,
      <<"3", ":", "a", " ", "k", "x">> \o <<"3", ":">> \o AK,
      <<":">>, <<":", ",">>, <<"x", ":">>, <<"a", "3", ":">> \o AK,
      <<"+", "3", ":">> \o AK, <<" ", "3", ":">> \o AK, <<"3", " ", ":">> \o AK,
      <<"+", " ", "3", ":">> \o AK, <<"-", "1", ":">> \o AK,
      <<"1", "0", ":", "a", " ">> \o Repeat("k", 8) \o <<",">>,
      <<"1", "2", ":", "a", " ">> \o Repeat("k", 10) \o <<",">>,
      <<"1">> \o Repeat("0", 9) \o <<":">> \o AK,
      <<"+">> \o Repeat("0", 9) \o <<"3", ":">> \o AK,
      <<"1">> \o Repeat("0", 10) \o <<":">> \o AK,
      <<"1">> \o Repeat("0", 11) \o <<":">> \o AK,
      <<"+">> \o Repeat("0", 10) \o <<"3", ":">> \o AK }

Alphabet == {"0", "1", ":", ",", " ", "a", "+"}

Framed(reqs) == Flatten([i \in 1..Len(reqs) |-> write_netstring(reqs[i])])

\* A stream is the client's framed requests followed by a tail.
Stream(reqs, tail) == [sent |-> reqs, input |-> Framed(reqs) \o tail]

Streams ==
    {Stream(reqs, <<>>) : reqs \in SeqsUpTo(Requests, MaxFrames)}
    \cup {Stream(reqs, t) : reqs \in SeqsUpTo(Requests, MaxBeforeTail), t \in Tails}
    \cup {Stream(<<>>, t) : t \in SeqsUpTo(Alphabet, ShortLen)}

\* The payloads of the codec round trip.
CodecAlphabet == {":", ",", "0", "1", " ", "a"}
MaxPayloadLen == 3

CodecPayloads ==
    SeqsUpTo(CodecAlphabet, MaxPayloadLen)
    \cup {Repeat(c, k) : c \in CodecAlphabet, k \in 0..MaxRun}

-----------------------------------------------------------------------------
(* One connection served by Handler.handle. *)

\* main, lines 194-200: the configuration parsed before a connection is served.
Configured ==
    /\ cp = ServedConfig
    /\ cfg = parse_config(ServedConfig)

\* The connections clients may open.
Conns == {1, 2}

\* No client has connected.
NoClients ==
    /\ client = [c \in Conns |-> "new"]
    /\ asked = [c \in Conns |-> 0]
    /\ unread = [c \in Conns |-> 0]
    /\ replies = [c \in Conns |-> 0]
    /\ backlog = <<>>
    /\ handler = [c \in Conns |-> "none"]

Init ==
    /\ \E s \in Streams :
          /\ sent = s.sent
          /\ input = s.input
          /\ rfile = s.input
    /\ wfile = <<>>
    /\ response = <<>>
    /\ n = <<>>
    /\ frames = <<>>
    /\ result = None
    /\ executed = <<>>
    /\ pc = "ReadLen"
    /\ outcome = ""
    /\ Configured
    /\ NoClients

\* netstring_reader, lines 70-84: one character of the length prefix.
ReadLength ==
    /\ pc = "ReadLen"
    /\ LET s == reader_length(rfile, n)
       IN  /\ rfile' = s.rfile
           /\ n' = s.n
           /\ pc' = s.pc
           /\ outcome' = s.outcome
    /\ UNCHANGED <<sent, input, wfile, response, frames, result, executed>>
    /\ UNCHANGED <<configVars, serverVars>>

\* netstring_reader, lines 85-91: the length, the payload, the terminator.
ReadPayload ==
    /\ pc = "ReadBody"
    /\ LET s == reader_payload(rfile, n)
       IN  /\ rfile' = s.next.rfile
           /\ n' = s.next.n
           /\ pc' = s.next.pc
           /\ outcome' = s.next.outcome
           /\ frames' = frames \o s.yield
    /\ UNCHANGED <<sent, input, wfile, response, result, executed>>
    /\ UNCHANGED <<configVars, serverVars>>

\* handle, lines 116-118: split the request and run the query.
Dispatch ==
    /\ pc = "Dispatching"
    /\ LET parts == Split1(request, " ")
       IN  IF ~Unpacks(parts)
           THEN /\ pc' = "Closed"
                /\ outcome' = "ValueError(unpack)"
                /\ UNCHANGED <<result, executed>>
           ELSE LET q == run_query(parts[1], parts[2])
                IN  /\ result' = q.result
                    /\ executed' = executed \o
                          [i \in 1..Len(q.executed) |->
                              [frame |-> Len(frames),
                               query |-> q.executed[i].query,
                               param |-> q.executed[i].param]]
                    /\ pc' = "Writing"
                    /\ outcome' = ""
    /\ UNCHANGED <<sent, input, rfile, wfile, response, n, frames>>
    /\ UNCHANGED <<configVars, serverVars>>

\* handle, lines 119-125, then back to the reader (lines 68-69).
Respond ==
    /\ pc = "Writing"
    /\ LET r == ResponseFor(result)
       IN  IF r = <<>>
           THEN /\ pc' = "Closed"
                /\ outcome' = "TypeError"
                /\ UNCHANGED <<wfile, response, n>>
           ELSE /\ response' = r[1]
                /\ wfile' = Append(wfile, write_netstring(r[1]))
                /\ pc' = AfterResponse(result)
                /\ outcome' = IF pc' = "Closed" THEN "return" ELSE ""
                /\ n' = <<>>
    /\ UNCHANGED <<sent, input, rfile, frames, result, executed>>
    /\ UNCHANGED <<configVars, serverVars>>

Next == ReadLength \/ ReadPayload \/ Dispatch \/ Respond

Spec == Init /\ [][Next]_vars

-----------------------------------------------------------------------------
(* The codec alone: a payload written by write_netstring and read back by  *)
(* netstring_reader, whose frames are collected one after the other.       *)

InitCodec ==
    /\ sent = <<>>
    /\ input = <<>>
    /\ rfile = <<>>
    /\ wfile = <<>>
    /\ response = <<>>
    /\ n = <<>>
    /\ frames = <<>>
    /\ result = None
    /\ executed = <<>>
    /\ pc = "Encode"
    /\ outcome = ""
    /\ Configured
    /\ NoClients

\* write_netstring(payload), its output being the reader's stream.
Encode ==
    /\ pc = "Encode"
    /\ \E payload \in CodecPayloads :
          /\ response' = payload
          /\ wfile' = <<write_netstring(payload)>>
          /\ input' = write_netstring(payload)
          /\ rfile' = write_netstring(payload)
    /\ pc' = "ReadLen"
    /\ UNCHANGED <<sent, n, frames, result, executed, outcome>>
    /\ UNCHANGED <<configVars, serverVars>>

\* The caller takes the frame and asks for the next one (lines 91, 68-69).
Collect ==
    /\ pc = "Dispatching"
    /\ pc' = "ReadLen"
    /\ n' = <<>>
    /\ UNCHANGED <<sent, input, rfile, wfile, response, frames, result, executed, outcome>>
    /\ UNCHANGED <<configVars, serverVars>>

NextCodec == Encode \/ ReadLength \/ ReadPayload \/ Collect

SpecCodec == InitCodec /\ [][NextCodec]_vars

-----------------------------------------------------------------------------
(* One connection on which a client looks one argument up in the three     *)
(* tables a (passthrough), l (local_part) and d (domain_part), in turn.    *)

MaxArgLen == 3

ArgAlphabet == {"u", "@", "k", "."}

UserAtExampleCom ==
    <<"u", "s", "e", "r", "@", "e", "x", "a", "m", "p", "l", "e", ".", "c", "o", "m">>

Args == SeqsUpTo(ArgAlphabet, MaxArgLen) \cup {UserAtExampleCom}

Lookups(arg) == << <<"a", " ">> \o arg, <<"l", " ">> \o arg, <<"d", " ">> \o arg >>

InitLookup ==
    /\ \E arg \in Args :
          /\ sent = Lookups(arg)
          /\ input = Framed(Lookups(arg))
          /\ rfile = Framed(Lookups(arg))
    /\ wfile = <<>>
    /\ response = <<>>
    /\ n = <<>>
    /\ frames = <<>>
    /\ result = None
    /\ executed = <<>>
    /\ pc = "ReadLen"
    /\ outcome = ""
    /\ Configured
    /\ NoClients

SpecLookup == InitLookup /\ [][Next]_vars

-----------------------------------------------------------------------------
(* The registry build alone: parse_config run on a configuration file.      *)

\* Transform specs are every text over SpecAlphabet of at most this length,
\* and the ones listed in TransformSpecs.
MaxSpecLen == 3
SpecAlphabet == {"m", ":", ".", "f"}

ShortSpecs == SeqsUpTo(SpecAlphabet, MaxSpecLen)

TransformSpecs ==
    { All, Local, DomainName, <<"m", ":", "f">>, <<"f">>,
      <<"m", ":", "p", ".", "g">>, <<"m", ".", "p", ":", "g">>,
      <<"M", ":", "f">>, <<"m", ":", "f", "1">>, <<"1", "m", ":", "f">>,
      <<"p", "a", "s", "s", "t", "h", "r", "o", "u", "g", "h">> }

QueryA == "SELECT v FROM a WHERE k = ?"
QueryB == "SELECT v FROM b WHERE k = ?"

\* [table:a] with a query and the transform spec t.
SectionA(t) ==
    [name |-> TablePrefix \o <<"a">>,
     options |-> ("query" :> QueryA) @@ ("transform" :> t)]

\* [table:a] with a query and a transform spec, or none.
SectionsA ==
    { [name |-> TablePrefix \o <<"a">>, options |-> ("query" :> QueryA)] }
    \cup { SectionA(t) : t \in TransformSpecs }

\* [table:b] with and without a query.
SectionsB ==
    { [name |-> TablePrefix \o <<"b">>, options |-> ("query" :> QueryB)],
      [name |-> TablePrefix \o <<"b">>, options |-> ("transform" :> <<"f">>)],
      [name |-> TablePrefix \o <<"b">>, options |-> ("transform" :> Local)],
      [name |-> TablePrefix \o <<"b">>, options |-> [o \in {} |-> ""]],
      [name |-> TablePrefix \o <<"b">>,
       options |-> ("query" :> QueryB) @@ ("transform" :> <<"m", ":", "p", ".", "g">>)],
      [name |-> TablePrefix \o <<"b">>,
       options |-> ("query" :> QueryB) @@ ("transform" :> <<"f">>)] }

\* [database], also with the options of a table and without its path.
DbSections ==
    { [name |-> Database, options |-> ("path" :> "/var/db/socketmap.db")],
      [name |-> Database,
       options |-> ("path" :> "/var/db/socketmap.db") @@ ("query" :> QueryB)
                   @@ ("transform" :> <<"f">>)],
      [name |-> Database, options |-> ("query" :> QueryB)] }

Groups == <<SectionsA, SectionsB, DbSections>>

\* The orders the sections of a file may come in.
Orders ==
    { p \in SeqsUpTo(1..3, 3) : \A i, j \in 1..Len(p) : i # j => p[i] # p[j] }

ConfigsOf(p) ==
    CASE Len(p) = 0 -> { <<>> }
      [] Len(p) = 1 -> { <<x>> : x \in Groups[p[1]] }
      [] Len(p) = 2 -> { <<x, y>> : x \in Groups[p[1]], y \in Groups[p[2]] }
      [] Len(p) = 3 ->
            { <<x, y, z>> : x \in Groups[p[1]], y \in Groups[p[2]], z \in Groups[p[3]] }

\* cp.sections() of the configuration files parse_config is run on: the
\* sections above in every order, and [database] followed by [table:a] with
\* every short transform spec.
Configs ==
    UNION { ConfigsOf(p) : p \in Orders }
    \cup { <<ServedConfig[1], SectionA(t)>> : t \in ShortSpecs }

NotParsed == [kind |-> "none", error |-> "", tables |-> NoTables]

\* No connection is being served.
NoConnection ==
    /\ sent = <<>>
    /\ input = <<>>
    /\ rfile = <<>>
    /\ wfile = <<>>
    /\ response = <<>>
    /\ n = <<>>
    /\ frames = <<>>
    /\ result = None
    /\ executed = <<>>
    /\ pc = "Closed"
    /\ outcome = ""

\* main, lines 191-192: the configuration file opened, not parsed yet.
InitConfig ==
    /\ cp \in Configs
    /\ cfg = NotParsed
    /\ NoConnection
    /\ NoClients

\* main, line 192: cfg = parse_config(args.config).
ParseConfig ==
    /\ cfg.kind = "none"
    /\ cfg' = parse_config(cp)
    /\ UNCHANGED <<cp, connVars, serverVars>>

NextConfig == ParseConfig

SpecConfig == InitConfig /\ [][NextConfig]_vars

-----------------------------------------------------------------------------
(* The server: socketserver.UnixStreamServer(args.sock, Handler) and its    *)
(* serve_forever(), with the clients that connect to the socket.  Every     *)
(* request here is a well-formed lookup of a table of the registry.         *)

\* Requests one client sends on its connection.
MaxRequests == 2

InitServer ==
    /\ NoClients
    /\ Configured
    /\ NoConnection

\* The Handler of a connection is between its setup and its finish.
Handling == {"reading", "querying", "writing"}

\* As ServerIdle, a server that hands each connection to a thread of its own
\* (ThreadingMixIn) and goes back to accept() at once.
ServerAlwaysIdle(h) == TRUE

\* UnixStreamServer runs process_request, and with it the whole of
\* Handler.handle, inside serve_forever: it is back at accept() only when no
\* Handler is running.
ServerIdle(h) == \A c \in Conns : h[c] \notin Handling

\* A client connects to the socket; the connection waits to be accepted.
Connect(c) ==
    /\ client[c] = "new"
    /\ client' = [client EXCEPT ![c] = "open"]
    /\ backlog' = Append(backlog, c)
    /\ UNCHANGED <<asked, unread, replies, handler, connVars, configVars>>

\* A client sends one framed request, accepted or not yet.
Send(c) ==
    /\ client[c] = "open"
    /\ handler[c] # "finished"
    /\ asked[c] < MaxRequests
    /\ asked' = [asked EXCEPT ![c] = @ + 1]
    /\ unread' = [unread EXCEPT ![c] = @ + 1]
    /\ UNCHANGED <<client, replies, backlog, handler, connVars, configVars>>

\* A client closes its end: the stream ends after what it has sent.
Close(c) ==
    /\ client[c] = "open"
    /\ client' = [client EXCEPT ![c] = "closed"]
    /\ UNCHANGED <<asked, unread, replies, backlog, handler, connVars, configVars>>

\* serve_forever, line 204: accept() and the Handler of the connection begun.
Accept ==
    /\ backlog # <<>>
    /\ ServerIdle(handler)
    /\ handler' = [handler EXCEPT ![Head(backlog)] = "reading"]
    /\ backlog' = Tail(backlog)
    /\ UNCHANGED <<client, asked, unread, replies, connVars, configVars>>

\* handle, lines 115-118: the next request read and its query begun, or the
\* end of the stream met; with neither, handle waits in read().
HandlerRead(c) ==
    /\ handler[c] = "reading"
    /\ \/ /\ unread[c] > 0
          /\ unread' = [unread EXCEPT ![c] = @ - 1]
          /\ handler' = [handler EXCEPT ![c] = "querying"]
       \/ /\ unread[c] = 0
          /\ client[c] = "closed"
          /\ handler' = [handler EXCEPT ![c] = "finished"]
          /\ UNCHANGED unread
    /\ UNCHANGED <<client, asked, replies, backlog, connVars, configVars>>

\* _query_db, lines 101-103: the statement executed on server.db_conn and
\* its row fetched.
HandlerQuery(c) ==
    /\ handler[c] = "querying"
    /\ handler' = [handler EXCEPT ![c] = "writing"]
    /\ UNCHANGED <<client, asked, unread, replies, backlog, connVars, configVars>>

\* handle, lines 119-125: the response written.
HandlerWrite(c) ==
    /\ handler[c] = "writing"
    /\ replies' = [replies EXCEPT ![c] = @ + 1]
    /\ handler' = [handler EXCEPT ![c] = "reading"]
    /\ UNCHANGED <<client, asked, unread, backlog, connVars, configVars>>

HandlerStep(c) == HandlerRead(c) \/ HandlerQuery(c) \/ HandlerWrite(c)

NextServer ==
    \/ \E c \in Conns : Connect(c)
    \/ \E c \in Conns : Send(c)
    \/ \E c \in Conns : Close(c)
    \/ Accept
    \/ \E c \in Conns : HandlerRead(c)
    \/ \E c \in Conns : HandlerQuery(c)
    \/ \E c \in Conns : HandlerWrite(c)

SpecServer == InitServer /\ [][NextServer]_vars

\* The server and its Handlers go on whenever they can; a client does as it
\* pleases.
SpecServerFair ==
    /\ InitServer
    /\ [][NextServer]_vars
    /\ WF_vars(Accept)
    /\ \A c \in Conns : WF_vars(HandlerStep(c))

-----------------------------------------------------------------------------
(* Vocabulary of the properties. *)

StartsWith(s, prefix) ==
    Len(s) >= Len(prefix) /\ SubSeq(s, 1, Len(prefix)) = prefix

\* The payload of a frame written by write_netstring.
ResponsePayload(chunk) == SubSeq(chunk, Find(chunk, ":") + 1, Len(chunk) - 1)

HasSpace(payload) == Find(payload, " ") # 0

TableOf(payload) == Split1(payload, " ")[1]
ArgOf(payload) == Split1(payload, " ")[2]

\* handle is not in the middle of serving the last frame yielded.
AllServed == pc \in {"ReadLen", "ReadBody", "Closed"}

\* Frame k has been served: answered, or handle ended over it.
Served(k) == k < Len(frames) \/ (k = Len(frames) /\ AllServed)

IsPerm(chunk) == StartsWith(ResponsePayload(chunk), PERM)

\* What the first request of a connection is answered with: one payload, or
\* none when handle ends without answering it.
Answer(payload) ==
    IF ~HasSpace(payload) THEN <<>>
    ELSE ResponseFor(run_query(TableOf(payload), ArgOf(payload)).result)

ExecutedFor(k) == SelectSeq(executed, LAMBDA e : e.frame = k)

-----------------------------------------------------------------------------
(* C1: a decoded request payload with no space is answered with a          *)
(* PERM-prefixed response and the connection stays open: once such a frame *)
(* has been served, its response is on the wire and begins with "PERM ".   *)
C1_NoSpaceAnsweredWithPerm ==
    \A k \in 1..Len(frames) :
        (~HasSpace(frames[k]) /\ Served(k))
            => /\ k <= Len(wfile)
               /\ IsPerm(wfile[k])
               /\ outcome # "ValueError(unpack)"

(* C2: sequential isolation.  When the connection has ended, every request *)
(* the client framed right after a request that was answered with PERM has *)
(* been decoded and, if it is a request that is answered when it comes     *)
(* first on a connection, has been answered with that same response.       *)
C2_SequentialIsolation ==
    pc = "Closed" =>
        \A j \in 2..Len(sent) :
            (j - 1 <= Len(wfile) /\ IsPerm(wfile[j - 1]))
                => /\ j <= Len(frames)
                   /\ frames[j] = sent[j]
                   /\ Answer(sent[j]) # <<>> =>
                         /\ j <= Len(wfile)
                         /\ wfile[j] = write_netstring(Answer(sent[j])[1])
                   /\ (sent[j] = sent[1] /\ Len(wfile) >= 1 /\ frames[1] = sent[1])
                         => (j <= Len(wfile) /\ wfile[j] = wfile[1])

\* A found request, an unknown table, and the found request again.
C2_Witness ==
    /\ pc = "Closed"
    /\ sent = << <<"a", " ", "k">>, <<"z", " ", "k">>, <<"a", " ", "k">> >>
    /\ Len(wfile) = 3
    /\ IsPerm(wfile[2])
    /\ wfile[3] = wfile[1]
    /\ ResponsePayload(wfile[3]) = <<"O", "K", " ", "v">>

(* C3: every decoded frame is followed by exactly one response frame,      *)
(* whatever the payload, the transform or the datastore do: handle never   *)
(* ends while dispatching or writing, and once a frame has been served     *)
(* there are as many responses as frames.                                  *)
C3_EveryFrameAnswered ==
    /\ outcome \notin {"ValueError(unpack)", "TypeError"}
    /\ AllServed => Len(wfile) = Len(frames)

(* C4: round trip.  The output of write_netstring(payload), read by        *)
(* netstring_reader, yields the one frame payload and then ends the        *)
(* sequence cleanly, with no framing error.                                *)
C4_RoundTrip ==
    /\ outcome \in {"", "eof"}
    /\ Len(frames) <= 1
    /\ frames # <<>> => frames[1] = response
    /\ pc = "Closed" => frames = <<response>>

\* A payload of ten ':' has been read back, past the two-digit length.
C4_Witness ==
    /\ pc = "Closed"
    /\ outcome = "eof"
    /\ response = Repeat(":", 10)
    /\ frames = <<response>>

(* C5: a length prefix of 11 or more characters before the ':' is a        *)
(* framing error, so a prefix the reader has accepted (it went on to the   *)
(* payload) has at most 10 characters.                                     *)
C5_OverlongPrefixRejected ==
    pc \in {"ReadBody", "Dispatching", "Writing"} => Len(n) <= MaxLenBuffer

(* C6: leading-zero rule.  When a frame's length prefix begins with '0',   *)
(* the reader accepts it only as the prefix "0" with ':' right after it;   *)
(* anything else after the '0' is a framing error that yields no frame.    *)
(* The accepted "0:" followed by ',' yields the empty payload.             *)
C6_LeadingZeroRule ==
    [][/\ (pc = "ReadLen" /\ n = <<>> /\ Read1(rfile) = "0")
            => IF Read1(Rest(rfile, 1)) = ":"
               THEN pc' = "ReadBody" /\ n' = <<"0">> /\ frames' = frames
               ELSE /\ pc' = "Closed"
                    /\ outcome' = "MalformedNetstringError"
                    /\ frames' = frames
                    /\ wfile' = wfile
       /\ (pc = "ReadBody" /\ n = <<"0">> /\ Read1(rfile) = ",")
            => (pc' = "Dispatching" /\ frames' = Append(frames, <<>>))
      ]_vars

\* "007:abc1234," has ended in a framing error with no frame yielded.
C6_Witness ==
    /\ input = <<"0", "0", "7", ":", "a", "b", "c", "1", "2", "3", "4", ",">>
    /\ pc = "Closed"
    /\ outcome = "MalformedNetstringError"
    /\ frames = <<>>

(* C7 as stated: for every declared length N >= 0, a stream that ends      *)
(* mid-payload, or right after the length and ':', ends the frame sequence *)
(* cleanly.                                                                *)
C7_TruncationFromZero ==
    [][(/\ pc = "ReadBody"
        /\ IsIntLiteral(n)
        /\ IntValue(n) >= 0
        /\ (Len(rfile) < IntValue(n) \/ rfile = <<>>))
            => (pc' = "Closed" /\ outcome' = "eof")
      ]_vars

(* C7, amended: for every declared length N >= 1, a stream that ends       *)
(* before N payload characters have come (mid-payload, or right after the  *)
(* ':') ends the frame sequence cleanly: no error is raised, and the       *)
(* frames yielded and the responses written before stay as they are.       *)
C7_TruncationTolerance ==
    [][(/\ pc = "ReadBody"
        /\ IsIntLiteral(n)
        /\ IntValue(n) >= 1
        /\ Len(rfile) < IntValue(n))
            => /\ pc' = "Closed"
               /\ outcome' = "eof"
               /\ frames' = frames
               /\ wfile' = wfile
      ]_vars

\* One request answered, then "3:a" and the end of the stream.
C7_Witness ==
    /\ sent = << <<"a", " ", "k">> >>
    /\ input = write_netstring(sent[1]) \o <<"3", ":", "a">>
    /\ pc = "Closed"
    /\ outcome = "eof"
    /\ Len(frames) = 1
    /\ Len(wfile) = 1

FramingErrors == {"MalformedNetstringError", "ValueError(int)"}

(* C8: framing errors are fatal and silent.  When the reader has raised on *)
(* a frame, handle has ended, nothing was written for that frame, and the  *)
(* responses on the wire are those of the complete frames before it, one   *)
(* each and in their order.                                                *)
C8_FramingErrorSilent ==
    outcome \in FramingErrors =>
        /\ pc = "Closed"
        /\ Len(wfile) = Len(frames)
        /\ \A k \in 1..Len(frames) :
              /\ Answer(frames[k]) # <<>>
              /\ wfile[k] = write_netstring(Answer(frames[k])[1])

\* A request answered, then "3:a kx": a byte other than ',' after the payload.
C8_Witness ==
    /\ outcome = "MalformedNetstringError"
    /\ sent = << <<"z", " ", "k">> >>
    /\ input = write_netstring(sent[1]) \o <<"3", ":", "a", " ", "k", "x", "3", ":">> \o AK
    /\ frames = sent
    /\ Len(wfile) = 1
    /\ ResponsePayload(wfile[1]) = PERM \o <<"z">>

UnknownTable(payload) == HasSpace(payload) /\ TableOf(payload) \notin DOMAIN tables

(* C9: a request "<t> <arg>" whose t is no key of the registry is answered *)
(* with the payload "PERM " followed by exactly t, no statement is run on  *)
(* the datastore for it, and the connection goes on to the next request.   *)
C9_UnknownTable ==
    \A k \in 1..Len(frames) :
        UnknownTable(frames[k]) =>
            /\ ExecutedFor(k) = <<>>
            /\ Served(k) =>
                  /\ k <= Len(wfile)
                  /\ wfile[k] = write_netstring(PERM \o TableOf(frames[k]))
            /\ (pc = "Closed" /\ k < Len(sent)) => Len(frames) > k

\* "z k" answered with "PERM z", and the request after it decoded.
C9_Witness ==
    /\ Len(frames) = 2
    /\ frames[1] = <<"z", " ", "k">>
    /\ wfile # <<>>
    /\ wfile[1] = <<"6", ":", "P", "E", "R", "M", " ", "z", ",">>
    /\ executed = <<>>

Registered(payload) == HasSpace(payload) /\ TableOf(payload) \in DOMAIN tables

(* C10: dispatch result mapping.  For a served request that names a        *)
(* registered table, with transform(argument) defined, exactly one         *)
(* statement was run: the table's query with transform(argument) bound.    *)
(* If it returned a row the response payload is "OK " followed by the      *)
(* row's first column; if it returned no row the payload is exactly        *)
(* "NOTFOUND ".  Every response payload written begins with "OK ",         *)
(* "NOTFOUND " or "PERM ".                                                 *)
C10_DispatchMapping ==
    /\ \A k \in 1..Len(wfile) :
          LET payload == ResponsePayload(wfile[k])
          IN  /\ wfile[k] = write_netstring(payload)
              /\ \/ StartsWith(payload, OK)
                 \/ StartsWith(payload, NOTFOUND)
                 \/ StartsWith(payload, PERM)
    /\ \A k \in 1..Len(frames) :
          (Registered(frames[k]) /\ Served(k)) =>
              LET table == tables[TableOf(frames[k])]
                  value == Transform(table.transform, ArgOf(frames[k]))
                  row == Db(table.query, value.text)
              IN  value.kind = "return" =>
                    /\ ExecutedFor(k) =
                          <<[frame |-> k, query |-> table.query, param |-> value.text]>>
                    /\ row.kind \in {"text", "integer"} =>
                          /\ k <= Len(wfile)
                          /\ StartsWith(ResponsePayload(wfile[k]), OK)
                          /\ row.kind = "text" =>
                                ResponsePayload(wfile[k]) = OK \o row.text
                    /\ row.kind = "none" =>
                          (k <= Len(wfile) /\ ResponsePayload(wfile[k]) = NOTFOUND)

\* What holds of C10: the same mapping for the rows whose first column is
\* text, the only rows a response is written for.
DispatchMappingOfTextRows ==
    /\ \A k \in 1..Len(wfile) :
          LET payload == ResponsePayload(wfile[k])
          IN  /\ wfile[k] = write_netstring(payload)
              /\ \/ StartsWith(payload, OK)
                 \/ StartsWith(payload, NOTFOUND)
                 \/ StartsWith(payload, PERM)
    /\ \A k \in 1..Len(frames) :
          (Registered(frames[k]) /\ Served(k)) =>
              LET table == tables[TableOf(frames[k])]
                  value == Transform(table.transform, ArgOf(frames[k]))
                  row == Db(table.query, value.text)
              IN  value.kind = "return" =>
                    /\ ExecutedFor(k) =
                          <<[frame |-> k, query |-> table.query, param |-> value.text]>>
                    /\ row.kind = "text" =>
                          (k <= Len(wfile) /\ ResponsePayload(wfile[k]) = OK \o row.text)
                    /\ row.kind = "none" =>
                          (k <= Len(wfile) /\ ResponsePayload(wfile[k]) = NOTFOUND)
                    /\ row.kind = "integer" => (k > Len(wfile) /\ outcome = "TypeError")

-----------------------------------------------------------------------------
\* The argument looked up on a connection of SpecLookup.
LookupArg == SubSeq(sent[1], 3, Len(sent[1]))

\* The value bound in the statement run for frame k.
ParamFor(k) == ExecutedFor(k)[1].param

(* C11: transform semantics.  passthrough binds the argument unchanged;    *)
(* for an argument with at least one '@', local_part binds what comes      *)
(* before the first '@' and domain_part what comes after it, so that       *)
(* local-part + '@' + domain-part is the argument.  Each lookup served has *)
(* run its one statement with that value.                                  *)
C11_TransformSemantics ==
    LET arg == LookupArg
        at == Find(arg, "@")
    IN  /\ Served(1) => (Len(ExecutedFor(1)) = 1 /\ ParamFor(1) = arg)
        /\ (at # 0 /\ Served(2)) =>
              /\ Len(ExecutedFor(2)) = 1
              /\ ParamFor(2) = SubSeq(arg, 1, at - 1)
        /\ (at # 0 /\ Served(3)) =>
              /\ Len(ExecutedFor(3)) = 1
              /\ ParamFor(3) = SubSeq(arg, at + 1, Len(arg))
              /\ ParamFor(2) \o <<"@">> \o ParamFor(3) = arg

\* "user@example.com" looked up: "user" and "example.com" were bound.
C11_Witness ==
    /\ pc = "Closed"
    /\ LookupArg = UserAtExampleCom
    /\ Len(executed) = 3
    /\ executed[1].param = UserAtExampleCom
    /\ executed[2].param = <<"u", "s", "e", "r">>
    /\ executed[3].param = <<"e", "x", "a", "m", "p", "l", "e", ".", "c", "o", "m">>


\* A request on a registered table whose transform raises on the argument.
TransformFails(payload) ==
    /\ Registered(payload)
    /\ tables[TableOf(payload)].transform = "domain_part"
    /\ Find(ArgOf(payload), "@") = 0

(* C12: a transform failure is recovered per request.  For a request whose *)
(* table's transform raises on the argument (domain_part, no '@'), no      *)
(* statement is run on the datastore, the response written is PERM, and    *)
(* the request the client framed next is decoded.                          *)
C12_TransformFailureRecovered ==
    \A k \in 1..Len(frames) :
        TransformFails(frames[k]) =>
            /\ ExecutedFor(k) = <<>>
            /\ Served(k) => (k <= Len(wfile) /\ IsPerm(wfile[k]))
            /\ (pc = "Closed" /\ k < Len(sent)) => Len(frames) > k

\* "d k" answered with PERM and no statement, then "a k" answered "OK v".
C12_Witness ==
    /\ pc = "Closed"
    /\ sent = << <<"d", " ", "k">>, <<"a", " ", "k">> >>
    /\ Len(wfile) = 2
    /\ ResponsePayload(wfile[1]) = PERM \o IndexErrorText
    /\ ResponsePayload(wfile[2]) = <<"O", "K", " ", "v">>
    /\ executed = <<[frame |-> 2, query |-> "SELECT v FROM a WHERE k = ?", param |-> <<"k">>]>>


AllDigits(s) == s # <<>> /\ \A i \in 1..Len(s) : IsDigit(s[i])

(* C14: digits-only length prefix.  The reader yields a payload only for a *)
(* frame whose length prefix consists solely of decimal digits: while a    *)
(* yielded frame is being served, the prefix it was read with is a         *)
(* non-empty run of digits, so a prefix holding any other character never  *)
(* produces a frame.                                                       *)
C14_DigitsOnlyPrefix ==
    pc \in {"Dispatching", "Writing"} => AllDigits(n)


(* C15: no pipelining.  The responses written are as many as the frames    *)
(* decoded, or exactly one fewer; the k-th response written is the answer  *)
(* to the k-th frame decoded; and a step takes characters off the stream   *)
(* only when every frame decoded so far has its response written.          *)
C15_NoPipelining ==
    /\ [](/\ Len(wfile) \in {Len(frames), Len(frames) - 1}
          /\ \A k \in 1..Len(wfile) :
                /\ Answer(frames[k]) # <<>>
                /\ ResponsePayload(wfile[k]) = Answer(frames[k])[1])
    /\ [][rfile' # rfile => Len(wfile) = Len(frames)]_vars

\* The second request is being read with the first response on the wire.
C15_Witness ==
    /\ Len(frames) = 1
    /\ Len(wfile) = 1
    /\ pc = "ReadLen"
    /\ n # <<>>
    /\ Len(sent) >= 2


\* The statement of the request's table raises on the transformed argument.
QueryFails(payload) ==
    /\ Registered(payload)
    /\ LET t == tables[TableOf(payload)]
           value == Transform(t.transform, ArgOf(payload))
       IN  value.kind # "raise" /\ Db(t.query, value.text).kind = "raise"

(* C18: no retries.  For each decoded request at most one statement is run *)
(* on the datastore and at most one response is written; a request whose   *)
(* statement raises has run it exactly once and is answered once, with     *)
(* "PERM " followed by the error's text.                                   *)
C18_NoRetries ==
    /\ Len(wfile) <= Len(frames)
    /\ Len(executed) <= Len(frames)
    /\ \A k \in 1..Len(frames) :
          /\ Len(ExecutedFor(k)) <= 1
          /\ (Served(k) /\ QueryFails(frames[k])) =>
                /\ Len(ExecutedFor(k)) = 1
                /\ k <= Len(wfile)
                /\ ResponsePayload(wfile[k]) = PERM \o DbErrorText

\* A failing statement has been answered and the connection has gone on.
C18_Witness ==
    /\ Len(frames) >= 2
    /\ QueryFails(frames[1])
    /\ Len(wfile) >= 2
    /\ Len(ExecutedFor(1)) = 1


\* The payload up to its first space, and what follows that space.
BeforeFirstSpace(payload) == SubSeq(payload, 1, Find(payload, " ") - 1)
AfterFirstSpace(payload) == SubSeq(payload, Find(payload, " ") + 1, Len(payload))

(* C19: request split.  A payload with a space is split at its first space *)
(* only: the table name has no space and table name, space and argument    *)
(* make up the payload.  Such a request is never refused for its shape,    *)
(* even with nothing after the space: served, an unknown table is answered *)
(* "PERM " and the text before the first space, and a table whose          *)
(* transform is the identity has run its statement with everything after   *)
(* the first space, further spaces included.                               *)
C19_RequestSplit ==
    \A k \in 1..Len(frames) :
        HasSpace(frames[k]) =>
            LET T == BeforeFirstSpace(frames[k])
                A == AfterFirstSpace(frames[k])
                parts == Split1(frames[k], " ")
            IN  /\ Unpacks(parts)
                /\ ~HasSpace(parts[1])
                /\ parts[1] \o <<" ">> \o parts[2] = frames[k]
                /\ Served(k) =>
                      /\ k = Len(frames) => outcome # "ValueError(unpack)"
                      /\ T \notin DOMAIN tables =>
                            /\ k <= Len(wfile)
                            /\ ResponsePayload(wfile[k]) = PERM \o T
                      /\ (T \in DOMAIN tables /\ tables[T].transform = "passthrough") =>
                            /\ Len(ExecutedFor(k)) = 1
                            /\ ParamFor(k) = A

\* An argument with a space and an empty argument have both been looked up.
C19_Witness ==
    /\ \E k \in 1..Len(frames) :
          /\ Served(k)
          /\ frames[k] = <<"a", " ", "k", " ", "k">>
          /\ ParamFor(k) = <<"k", " ", "k">>
    /\ \E k \in 1..Len(frames) :
          /\ Served(k)
          /\ frames[k] = <<"a", " ">>
          /\ Len(ExecutedFor(k)) = 1
          /\ ParamFor(k) = <<>>


\* What is left for handle to do: the characters still to be read, then the
\* steps left on the frame in hand.
Measure ==
    4 * Len(rfile) + CASE pc = "Closed" -> 0
                       [] pc = "ReadLen" -> 1
                       [] pc = "Writing" -> 2
                       [] pc = "Dispatching" -> 3
                       [] pc = "ReadBody" -> 4

\* handle never loops: it has a step to take until it has ended, and every
\* step leaves it less to do.
HandleTerminates ==
    /\ [](pc # "Closed" => ENABLED Next)
    /\ [](Measure >= 0)
    /\ [][Measure' < Measure]_vars

(* C20: termination.  On a finite stream that the client then closes,      *)
(* handle is never stuck short of its end, and its end is the stream's     *)
(* clean end or a framing error raised by the reader.                      *)
C20_Termination ==
    /\ pc # "Closed" => ENABLED Next
    /\ pc = "Closed" => outcome \in {"eof"} \cup FramingErrors


\* The sections of cp that are table entries, and those of them with a query.
TableEntries == { i \in 1..Len(cp) : IsTableSection(cp[i]) }
WithQuery == { i \in TableEntries : "query" \in DOMAIN cp[i].options }

\* The transform spec of entry i is a built-in name, or a function
\* reference of the form module:object that the resolver finds.
GoodSpec(i) ==
    LET name == transform_name_of(cp[i])
    IN  \/ name \in {All, Local, DomainName}
        \/ /\ match(name).kind = "return"
           /\ resolve(match(name).module, match(name).object).kind = "return"

\* The transform the spec of entry i stands for.
ResolvedSpec(i) ==
    LET name == transform_name_of(cp[i])
    IN  CASE name = All -> "passthrough"
          [] name = Local -> "local_part"
          [] name = DomainName -> "domain_part"
          [] OTHER -> resolve(match(name).module, match(name).object).value

HasDbPath ==
    \E i \in 1..Len(cp) : cp[i].name = Database /\ "path" \in DOMAIN cp[i].options

\* The served registry is the one parse_config builds from ServedConfig.
ServedRegistry == parse_config(ServedConfig).tables = tables

(* C13: the registry build of parse_config, on a configuration file that   *)
(* names its database.  If some table entry with a query has a transform   *)
(* spec that is neither a built-in name nor a module:object reference the  *)
(* resolver finds, the build fails and there is no registry.  Otherwise    *)
(* the build succeeds and the registry holds exactly the entries that have *)
(* a query, each with its own query and its resolved transform: an entry   *)
(* without a query is absent and fails nothing, whatever its transform     *)
(* spec.                                                                   *)
C13_RegistryBuild ==
    (cfg.kind # "none" /\ HasDbPath) =>
        IF \E i \in WithQuery : ~GoodSpec(i)
        THEN cfg.kind = "raise" /\ cfg.tables = NoTables
        ELSE /\ cfg.kind = "return"
             /\ DOMAIN cfg.tables = { table_name_of(cp[i]) : i \in WithQuery }
             /\ \A i \in WithQuery :
                   /\ cfg.tables[table_name_of(cp[i])].query = cp[i].options["query"]
                   /\ cfg.tables[table_name_of(cp[i])].transform = ResolvedSpec(i)

\* A registry built from a file with an entry that has no query and an
\* invalid transform spec, and an entry whose transform the resolver found.
C13_Witness ==
    /\ cfg.kind = "return"
    /\ \E i \in TableEntries \ WithQuery :
          /\ "transform" \in DOMAIN cp[i].options
          /\ match(cp[i].options["transform"]).kind = "raise"
    /\ \E i \in WithQuery :
          /\ transform_name_of(cp[i]) = <<"m", ":", "f">>
          /\ cfg.tables[table_name_of(cp[i])].transform = "m.f"


\* The connections whose Handler is inside _query_db.
Querying == { c \in Conns : handler[c] = "querying" }

(* C16: datastore mutual exclusion.  With several connections open at      *)
(* once, at most one Handler is inside _query_db on server.db_conn at any  *)
(* time.                                                                   *)
C16_DatastoreMutualExclusion == Cardinality(Querying) <= 1

\* Both connections are open with requests sent on both, and one of them is
\* inside _query_db.
C16_Witness ==
    /\ \A c \in Conns : client[c] = "open" /\ asked[c] > 0
    /\ handler[1] = "querying"
    /\ unread[2] > 0

(* C17: independent workers.  A connection on which a complete request has *)
(* been sent is eventually answered, whatever the other connections do,    *)
(* an earlier connection that stays open and sends nothing included.       *)
C17_IndependentWorkers ==
    \A c \in Conns : (asked[c] > 0) ~> (replies[c] > 0)

====
